---- MODULE Spec2Model ----
(***************************************************************************)
(* Kofeinator: the caffeine plasma-concentration calculator                *)
(* (src/streamlit_app.py, and its single-dose predecessor                  *)
(* src/kofeinator.py).                                                     *)
(*                                                                         *)
(* Number representation.  The program computes in IEEE doubles; the model *)
(* computes in scaled integers:                                            *)
(*   times            whole minutes (the program's datetimes are whole     *)
(*                    minutes: grid points are i * step minutes after the  *)
(*                    microsecond rounding of timedelta, widget times are  *)
(*                    hh:mm); hours = minutes / 60                         *)
(*   Ka, Ke           units of 1e-4 per hour     (Ka = 1.2  ->  12000)     *)
(*   Vd               units of 1e-3 litre        (42 L      ->  42000)     *)
(*   CL               units of 1e-7 litre/hour   (4.2 L/hr  ->  42000000)  *)
(*   exp values       units of 1e-6                                        *)
(*   concentrations   units of 1e-4 mg/L         (1 mg/L    ->  10000)     *)
(* Every adjustment factor of the program has at most two decimals, so Vd, *)
(* CL and Ke are exact in these units.                                     *)
(***************************************************************************)
EXTENDS Integers, Sequences, FiniteSets, TLC

(* ---------------------------------------------------------------------- *)
(* Scaled arithmetic                                                       *)
(* ---------------------------------------------------------------------- *)

Abs(x) == IF x < 0 THEN -x ELSE x

Max(a, b) == IF a >= b THEN a ELSE b

\* floor(a * b / c) for 0 <= a, 0 <= b, 0 < c < 2^30, without forming a * b:
\* <<quotient, remainder>>, by doubling over the bits of b.
RECURSIVE MulDivQR(_, _, _)
MulDivQR(a, b, c) ==
    IF b = 0 THEN <<0, 0>>
    ELSE LET h  == MulDivQR(a, b \div 2, c)
             q2 == 2 * h[1] + ((2 * h[2]) \div c)
             r2 == (2 * h[2]) % c
         IN  IF b % 2 = 0 THEN <<q2, r2>>
             ELSE <<q2 + (a \div c) + ((r2 + (a % c)) \div c), (r2 + (a % c)) % c>>

MulDiv(a, b, c) == MulDivQR(a, b, c)[1]

\* One in the 1e-6 fixed-point scale of the exponentials.
ExpOne == 1000000

\* a * b / 1e6 for 0 <= a, b <= 1e6 (both in the 1e-6 scale).
Mul6(a, b) == (((a \div 1000) * b) \div 1000) + (((a % 1000) * b) \div ExpOne)

\* exp(-1) in the 1e-6 scale.
ExpMinusOne == 367879

\* The Taylor series of exp(-f), 0 <= f < 1 (f6 = f in the 1e-6 scale):
\* the sum from term number n on, term = f^(n-1)/(n-1)! .
RECURSIVE ExpSeries(_, _, _)
ExpSeries(f6, n, term) ==
    IF term = 0 THEN 0
    ELSE term - ExpSeries(f6, n + 1, Mul6(term, f6) \div n)

RECURSIVE ExpPow(_, _)
ExpPow(k, acc) == IF k = 0 \/ acc = 0 THEN acc ELSE ExpPow(k - 1, Mul6(acc, ExpMinusOne))

\* np.exp(-K * t) in the 1e-6 scale, K in 1e-4 per hour, t >= 0 in minutes:
\* the exponent is K * t / 600000 = k + f with k whole and 0 <= f < 1.
NpExpNeg(K, t) ==
    LET xq == K * t
    IN  ExpPow(xq \div 600000, ExpSeries(((xq % 600000) * 5) \div 3, 1, ExpOne))

(* ---------------------------------------------------------------------- *)
(* Constants of the program                                                *)
(* ---------------------------------------------------------------------- *)

\* Option and key strings are the program's, written without diacritics.
CustomChoice == "Vlastni davka"

\* None is <<>> and an int v is <<v>>.
None == <<>>

coffee_options ==
    [c \in {"Espresso (30 ml)", "Drip (240 ml)", "French Press (240 ml)",
            "Cold Brew (240 ml)", "Instantni kava (240 ml)", "Decaf (240 ml)",
            "Cappuccino (240 ml)", "Latte (240 ml)", "Americano (1 davka espressa)",
            "Mocha (240 ml)", "Turecka kava (60 ml)", CustomChoice} |->
        CASE c = "Espresso (30 ml)"             -> <<63>>
          [] c = "Drip (240 ml)"                -> <<95>>
          [] c = "French Press (240 ml)"        -> <<100>>
          [] c = "Cold Brew (240 ml)"           -> <<120>>
          [] c = "Instantni kava (240 ml)"      -> <<65>>
          [] c = "Decaf (240 ml)"               -> <<5>>
          [] c = "Cappuccino (240 ml)"          -> <<75>>
          [] c = "Latte (240 ml)"               -> <<75>>
          [] c = "Americano (1 davka espressa)" -> <<63>>
          [] c = "Mocha (240 ml)"               -> <<80>>
          [] c = "Turecka kava (60 ml)"         -> <<60>>
          [] OTHER                              -> None]

GenderOptions == {"muz", "zena"}
SmokingOptions == {"nekurak", "kurak"}
LiverOptions == {"normalni", "mirne snizena", "vyrazne snizena"}
MetabolismOptions == {"normalni", "pomaly metabolizator", "rychly metabolizator"}

WeightMin == 30
WeightMax == 150
WeightDefault == 70
ServingsMin == 1
ServingsMax == 10
ServingsDefault == 1
HorizonMin == 1
HorizonMax == 23
HorizonDefault == 23
StepMin == 1
StepMax == 60
StepDefault == 15
\* time(22, 0), in minutes after midnight.
BedtimeDefault == 1320

\* F = 1.0
F == 1
\* Ka = 1.2 per hour, in 1e-4 per hour.
Ka == 12000
\* The sleep threshold, 1.0 mg/L, in 1e-4 mg/L.
SleepThreshold == 10000

(* ---------------------------------------------------------------------- *)
(* Widgets                                                                 *)
(* ---------------------------------------------------------------------- *)

\* The widget without min_value and max_value: whatever is asked for is read.
NumberInputUnbounded(min_value, max_value, value, req) == req

\* st.number_input(min_value, max_value, value): the value the script reads
\* after the user asks for req. A value outside [min_value, max_value] is not
\* accepted, the widget keeps the value it had.
NumberInput(min_value, max_value, value, req) ==
    IF min_value <= req /\ req <= max_value THEN req ELSE value

(* ---------------------------------------------------------------------- *)
(* PK parameter adjustment                                                 *)
(* ---------------------------------------------------------------------- *)

\* The factor CL is multiplied by, in tenths (two decimals for the gender factor).
MetabolismFactor(metabolism_status) ==
    CASE metabolism_status = "pomaly metabolizator" -> 3
      [] metabolism_status = "rychly metabolizator" -> 13
      [] OTHER -> 10

SmokingFactor(smoking_status) == IF smoking_status = "kurak" THEN 15 ELSE 10

GenderFactor(gender) == IF gender = "zena" THEN 85 ELSE 100

LiverFactor(liver_function) ==
    CASE liver_function = "mirne snizena" -> 8
      [] liver_function = "vyrazne snizena" -> 5
      [] OTHER -> 10

\* Vd_standard = 0.6 and CL_standard = 0.06, as 6 tenths and 6 hundredths.
Vd_standard == 6
CL_standard == 6

\* The adjustment without line 108 (Vd *= 0.85): the gender factor reaches CL
\* only.
AdjustParametersVdUnadjusted(w, g, sm, lv, mt) ==
    LET vd == Vd_standard * w * 100
        cl == CL_standard * w * MetabolismFactor(mt) * SmokingFactor(sm)
                  * GenderFactor(g) * LiverFactor(lv)
    IN  [Vd |-> vd, CL |-> cl, Ke |-> cl \div vd]

\* Vd in 1e-3 L, CL in 1e-7 L/hr, Ke = CL / Vd in 1e-4 per hour.
AdjustParameters(w, g, sm, lv, mt) ==
    LET vd == Vd_standard * w * GenderFactor(g)
        cl == CL_standard * w * MetabolismFactor(mt) * SmokingFactor(sm)
                  * GenderFactor(g) * LiverFactor(lv)
    IN  [Vd |-> vd, CL |-> cl, Ke |-> cl \div vd]

(* ---------------------------------------------------------------------- *)
(* The time grid                                                           *)
(* ---------------------------------------------------------------------- *)

\* The grids (H hours, s minutes) for which np.arange's length
\* ceil((H + s/60) / (s/60)), evaluated in IEEE-754 doubles, comes out one
\* above the exact ceil(60 H / s) + 1: s/60 is not a double, and the rounded
\* quotient lands just above the whole number 60 H / s + 1.
ArangeRoundsUp ==
    [H \in HorizonMin..HorizonMax |->
        CASE H = 1 -> {2, 10}
          [] H \in {2, 3} -> {4, 5, 20}
          [] H = 4 -> {8, 10, 40}
          [] H = 5 -> {10}
          [] H = 6 -> {8, 9, 10, 40}
          [] H = 7 -> {10, 42}
          [] H = 8 -> {1, 5, 16, 20}
          [] H = 9 -> {1, 5, 9, 18, 20}
          [] H \in {10, 13, 14} -> {1, 5, 20}
          [] H = 11 -> {1, 5, 11, 20, 22}
          [] H = 12 -> {1, 5, 16, 18, 20}
          [] H = 15 -> {1, 5, 18, 20}
          [] H = 16 -> {2, 10, 32, 40}
          [] H = 17 -> {2, 10, 17, 51}
          [] H = 18 -> {2, 10, 18, 36, 40}
          [] H \in {19, 23} -> {2, 10}
          [] H = 20 -> {2, 10, 40}
          [] H = 21 -> {2, 10, 21, 36}
          [] H = 22 -> {2, 10, 11, 22, 40, 44, 55}]

\* len(np.arange(0, H + s/60, s/60)).
ArangeLen(H, s) ==
    ((60 * H + s - 1) \div s) + 1 + (IF s \in ArangeRoundsUp[H] THEN 1 ELSE 0)

\* time_points, as minutes after simulation_start_time: element i of
\* np.arange is i * (s/60) hours, a whole number of minutes as a datetime.
TimePoints(H, s) == [i \in 1..ArangeLen(H, s) |-> (i - 1) * s]

(* ---------------------------------------------------------------------- *)
(* The one-compartment model                                               *)
(* ---------------------------------------------------------------------- *)

\* The model with Ka left out of the numerator: (F * dose) / (Vd * (Ka - Ke)).
PlasmaConcentrationAtNoKa(dose, f, ka, ke, vd, t) ==
    IF t < 0 THEN 0
    ELSE LET diff == NpExpNeg(ke, t) - NpExpNeg(ka, t)
             sign == (IF ka > ke THEN 1 ELSE -1) * (IF diff >= 0 THEN 1 ELSE -1)
             mag  == MulDiv(f * dose * 100000, Abs(diff), vd * Abs(ka - ke))
         IN  Max(sign * mag, 0)

\* One element of calculate_plasma_concentration's array, in 1e-4 mg/L, for
\* Ka /= Ke and t minutes:
\*   (F * dose * Ka) / (Vd * (Ka - Ke)) * (exp(-Ke * t) - exp(-Ka * t)),
\* then np.maximum(C, 0). For t < 0 the two factors have opposite signs
\* whatever Ka and Ke are, and the product is clamped to 0.
PlasmaConcentrationAt(dose, f, ka, ke, vd, t) ==
    IF t < 0 THEN 0
    ELSE LET diff == NpExpNeg(ke, t) - NpExpNeg(ka, t)
             sign == (IF ka > ke THEN 1 ELSE -1) * (IF diff >= 0 THEN 1 ELSE -1)
             mag  == MulDiv(f * dose * ka * 10, Abs(diff), vd * Abs(ka - ke))
         IN  Max(sign * mag, 0)

\* calculate_plasma_concentration(dose, F, Ka, Ke, Vd, t) for an array t:
\* the Python floats F * dose * Ka and Vd * (Ka - Ke) are divided first, which
\* raises ZeroDivisionError when Ka = Ke.
calculate_plasma_concentration(dose, f, ka, ke, vd, t) ==
    IF ka = ke
    THEN [err |-> "ZeroDivisionError", C |-> <<>>]
    ELSE [err |-> "none",
          C |-> [i \in 1..Len(t) |-> PlasmaConcentrationAt(dose, f, ka, ke, vd, t[i])]]

(* ---------------------------------------------------------------------- *)
(* The dose schedule                                                       *)
(* ---------------------------------------------------------------------- *)

\* pop(0), which removes the oldest entry.
PopFirst(entries) == SubSeq(entries, 2, Len(entries))

\* st.session_state.coffee_entries.pop()
Pop(entries) == SubSeq(entries, 1, Len(entries) - 1)

\* The body of "if add_entry:": form = [choice, servings, time].
AddEntry(entries, form) ==
    LET caffeine_per_serving == coffee_options[form.choice]
    IN  IF caffeine_per_serving = None
        THEN [err |-> "TypeError", entries |-> entries]
        ELSE [err |-> "none",
              entries |-> Append(entries,
                  [type |-> form.choice,
                   dose |-> caffeine_per_serving[1] * form.servings,
                   time |-> form.time])]

(* ---------------------------------------------------------------------- *)
(* The simulation                                                          *)
(* ---------------------------------------------------------------------- *)

\* np.abs in place of the clamp.
TimeSinceDoseAbs(tp, dose_time) == Abs(tp - dose_time)

\* time_since_dose for one grid point, in minutes: np.maximum(tp - dose_time, 0).
TimeSinceDose(tp, dose_time) == Max(tp - dose_time, 0)

\* C = C_dose
AccumulateOverwrite(acc, c_dose) == c_dose

\* C -= C_dose
AccumulateSubtract(acc, c_dose) == [i \in 1..Len(acc) |-> acc[i] - c_dose[i]]

\* C += C_dose
Accumulate(acc, c_dose) == [i \in 1..Len(acc) |-> acc[i] + c_dose[i]]

\* "for entry in st.session_state.coffee_entries:" from entry number k on,
\* with acc the array C so far.
RECURSIVE DoseLoop(_, _, _, _, _, _, _, _)
DoseLoop(entries, k, f, ka, ke, vd, tp, acc) ==
    IF k > Len(entries) THEN [err |-> "none", C |-> acc]
    ELSE LET time_since_dose ==
                 [i \in 1..Len(tp) |-> TimeSinceDose(tp[i], entries[k].time)]
             C_dose == calculate_plasma_concentration(
                           entries[k].dose, f, ka, ke, vd, time_since_dose)
         IN  IF C_dose.err /= "none" THEN [err |-> C_dose.err, C |-> <<>>]
             ELSE DoseLoop(entries, k + 1, f, ka, ke, vd, tp,
                           Accumulate(acc, C_dose.C))

\* C = np.zeros_like(t_hours), then the loop over the entries.
Simulate(entries, f, ka, ke, vd, tp) ==
    DoseLoop(entries, 1, f, ka, ke, vd, tp, [i \in 1..Len(tp) |-> 0])

(* ---------------------------------------------------------------------- *)
(* The bedtime query                                                       *)
(* ---------------------------------------------------------------------- *)

\* The minimum that keeps the last of equal keys.
RECURSIVE MinIndexLast(_, _, _, _)
MinIndexLast(tp, q, lo, hi) ==
    IF lo >= hi THEN lo
    ELSE LET mid   == (lo + hi) \div 2
             left  == MinIndexLast(tp, q, lo, mid)
             right == MinIndexLast(tp, q, mid + 1, hi)
         IN  IF Abs(tp[right + 1] - q) <= Abs(tp[left + 1] - q) THEN right ELSE left

\* min(range(len(time_points)), key=...) over the indices lo..hi (Python's,
\* from 0): Python's min keeps the first of equal keys. The scan is folded
\* by halves, the left half first, which keeps the recursion shallow.
RECURSIVE MinIndex(_, _, _, _)
MinIndex(tp, q, lo, hi) ==
    IF lo >= hi THEN lo
    ELSE LET mid   == (lo + hi) \div 2
             left  == MinIndex(tp, q, lo, mid)
             right == MinIndex(tp, q, mid + 1, hi)
         IN  IF Abs(tp[right + 1] - q) < Abs(tp[left + 1] - q) THEN right ELSE left

\* bedtime_datetime, in minutes after simulation_start_time (start is the
\* simulation's start in minutes after midnight): a bedtime before the start
\* is taken on the next day.
BedtimeDatetime(bed, start) == IF bed < start THEN bed + 1440 - start ELSE bed - start

\* caffeine_at_bedtime > 1.0
ExceedsSleepThreshold(caffeine) == caffeine > SleepThreshold

(* ---------------------------------------------------------------------- *)
(* One run of the script (streamlit_app.py, main)                          *)
(* ---------------------------------------------------------------------- *)

\* What a run leaves when it stops at an exception: nothing below the point
\* of the exception is computed or shown.
Aborted(entries, err) ==
    [coffee_entries |-> entries, displayed |-> <<>>, remove_button |-> FALSE,
     Vd |-> 0, CL |-> 0, Ke |-> 0, time_points |-> <<>>, C |-> <<>>,
     idx_bedtime |-> 0, caffeine_at_bedtime |-> 0, sleep_warning |-> FALSE,
     error |-> err]

\* main(): entries is st.session_state.coffee_entries before the run, w .. bed
\* are the widget values, add_entry and remove_last the two buttons, form the
\* submitted coffee_form. The result is the session state and what the run
\* computed and showed.
Main(entries, w, g, sm, lv, mt, H, s, bed, add_entry, form, remove_last) ==
    LET added == IF add_entry THEN AddEntry(entries, form)
                 ELSE [err |-> "none", entries |-> entries]
    IN  IF added.err /= "none" THEN Aborted(entries, added.err)
        ELSE
        LET shown  == added.entries
            button == shown /= <<>>
            after  == IF button /\ remove_last THEN Pop(shown) ELSE shown
            pk     == AdjustParameters(w, g, sm, lv, mt)
            tp     == TimePoints(H, s)
            sim    == Simulate(after, F, Ka, pk.Ke, pk.Vd, tp)
        IN  IF sim.err /= "none" THEN Aborted(after, sim.err)
            ELSE
            LET idx      == MinIndex(tp, BedtimeDatetime(bed, 0), 0, Len(tp) - 1)
                caffeine == sim.C[idx + 1]
            IN  [coffee_entries |-> after, displayed |-> shown,
                 remove_button |-> button,
                 Vd |-> pk.Vd, CL |-> pk.CL, Ke |-> pk.Ke,
                 time_points |-> tp, C |-> sim.C,
                 idx_bedtime |-> idx, caffeine_at_bedtime |-> caffeine,
                 sleep_warning |-> ExceedsSleepThreshold(caffeine),
                 error |-> "none"]

(* ---------------------------------------------------------------------- *)
(* State                                                                   *)
(* ---------------------------------------------------------------------- *)

VARIABLES
    weight, gender, smoking_status, liver_function, metabolism_status,
    simulation_time_hours, time_step_hours, bedtime,  \* the widgets' values
    coffee_entries,       \* st.session_state.coffee_entries
    request,              \* what the user last did
    phase,                \* "pending": a run is due; "done": the run has ended
    displayed,            \* the entries written under "Zadane davky kavy"
    remove_button,        \* whether the last run rendered the remove button
    Vd, CL, Ke, time_points, C,
    idx_bedtime, caffeine_at_bedtime, sleep_warning,
    error,                \* the exception that stopped the last run, or "none"
    pk_in, pk_out         \* arguments and result of a direct call of
                          \* calculate_plasma_concentration

widgets == <<weight, gender, smoking_status, liver_function, metabolism_status,
             simulation_time_hours, time_step_hours, bedtime>>

outputs == <<coffee_entries, displayed, remove_button, Vd, CL, Ke, time_points, C,
             idx_bedtime, caffeine_at_bedtime, sleep_warning, error>>

vars == <<widgets, outputs, request, phase, pk_in, pk_out>>

NoForm == [choice |-> "", servings |-> 0, time |-> 0]

\* request.valid: every number the user asked for was inside its widget's range.
Request(kind, form, valid) == [kind |-> kind, form |-> form, valid |-> valid]

NoCall == [dose |-> 0, F |-> 0, Ka |-> 0, Ke |-> 0, Vd |-> 0, t |-> <<>>]

NoResult == [err |-> "none", C |-> <<>>]

\* The run's result r becomes the state.
Ran(r) ==
    /\ coffee_entries' = r.coffee_entries
    /\ displayed' = r.displayed
    /\ remove_button' = r.remove_button
    /\ Vd' = r.Vd
    /\ CL' = r.CL
    /\ Ke' = r.Ke
    /\ time_points' = r.time_points
    /\ C' = r.C
    /\ idx_bedtime' = r.idx_bedtime
    /\ caffeine_at_bedtime' = r.caffeine_at_bedtime
    /\ sleep_warning' = r.sleep_warning
    /\ error' = r.error
    /\ phase' = "done"

\* The state before any run of the session with the given widget values.
Pending(entries, w, g, sm, lv, mt, H, s, bed) ==
    /\ weight = w
    /\ gender = g
    /\ smoking_status = sm
    /\ liver_function = lv
    /\ metabolism_status = mt
    /\ simulation_time_hours = H
    /\ time_step_hours = s
    /\ bedtime = bed
    /\ coffee_entries = entries
    /\ request = Request("load", NoForm, TRUE)
    /\ phase = "pending"
    /\ displayed = <<>>
    /\ remove_button = FALSE
    /\ Vd = 0
    /\ CL = 0
    /\ Ke = 0
    /\ time_points = <<>>
    /\ C = <<>>
    /\ idx_bedtime = 0
    /\ caffeine_at_bedtime = 0
    /\ sleep_warning = FALSE
    /\ error = "none"
    /\ pk_in = NoCall
    /\ pk_out = NoResult

(* ---------------------------------------------------------------------- *)
(* The session: a page load, then one run per user action                  *)
(* ---------------------------------------------------------------------- *)

\* Bounds and input sets of the session.
MaxEntries == 2

AddChoices == {"Drip (240 ml)", CustomChoice}

ServingsRequests == {0, 1, 10, 11}

\* 22:00 and 22:30.
DoseTimes == {1320, 1350}

WeightRequests == {29, 150, 151}

HorizonRequests == {0, 1, 24}

StepRequests == {0, 60, 61}

InRange(min_value, max_value, req) == min_value <= req /\ req <= max_value

\* A new session: every widget at its default, no entry, the first run due.
Init ==
    Pending(<<>>, WeightDefault, "muz", "nekurak", "normalni", "normalni",
            HorizonDefault, StepDefault, BedtimeDefault)

\* The run of the script that is due: the page load, or a plain rerun.
RunScript ==
    /\ phase = "pending"
    /\ Ran(Main(coffee_entries, weight, gender, smoking_status, liver_function,
                metabolism_status, simulation_time_hours, time_step_hours,
                bedtime, FALSE, NoForm, FALSE))
    /\ UNCHANGED <<widgets, request, pk_in, pk_out>>

\* The user fills coffee_form and presses "Pridat".
SubmitForm(choices, servings_requests, times) ==
    /\ phase = "done"
    /\ \E choice \in choices, sreq \in servings_requests, tm \in times :
          LET form == [choice |-> choice,
                       servings |-> NumberInput(ServingsMin, ServingsMax,
                                                ServingsDefault, sreq),
                       time |-> tm]
          IN  /\ request' = Request("add", form,
                                    InRange(ServingsMin, ServingsMax, sreq))
              /\ Ran(Main(coffee_entries, weight, gender, smoking_status,
                          liver_function, metabolism_status,
                          simulation_time_hours, time_step_hours, bedtime,
                          TRUE, form, FALSE))
    /\ UNCHANGED <<widgets, pk_in, pk_out>>

SubmitAdd ==
    /\ Len(coffee_entries) < MaxEntries
    /\ SubmitForm(AddChoices, ServingsRequests, DoseTimes)

\* The user presses "Odstranit posledni davku", which the last run rendered.
ClickRemoveLast ==
    /\ phase = "done"
    /\ remove_button
    /\ request' = Request("remove_last", NoForm, TRUE)
    /\ Ran(Main(coffee_entries, weight, gender, smoking_status, liver_function,
                metabolism_status, simulation_time_hours, time_step_hours,
                bedtime, FALSE, NoForm, TRUE))
    /\ UNCHANGED <<widgets, pk_in, pk_out>>

\* A sidebar number_input is edited: an accepted value reruns the script, a
\* value outside the widget's range is not accepted and nothing runs.
SetWeight ==
    /\ phase = "done"
    /\ \E req \in WeightRequests :
          LET w == NumberInput(WeightMin, WeightMax, weight, req)
          IN  /\ request' = Request("weight", NoForm, InRange(WeightMin, WeightMax, req))
              /\ weight' = w
              /\ IF w = req
                 THEN Ran(Main(coffee_entries, w, gender, smoking_status,
                               liver_function, metabolism_status,
                               simulation_time_hours, time_step_hours, bedtime,
                               FALSE, NoForm, FALSE))
                 ELSE UNCHANGED <<outputs, phase>>
    /\ UNCHANGED <<gender, smoking_status, liver_function, metabolism_status,
                   simulation_time_hours, time_step_hours, bedtime, pk_in, pk_out>>

SetHorizon ==
    /\ phase = "done"
    /\ \E req \in HorizonRequests :
          LET H == NumberInput(HorizonMin, HorizonMax, simulation_time_hours, req)
          IN  /\ request' = Request("horizon", NoForm, InRange(HorizonMin, HorizonMax, req))
              /\ simulation_time_hours' = H
              /\ IF H = req
                 THEN Ran(Main(coffee_entries, weight, gender, smoking_status,
                               liver_function, metabolism_status,
                               H, time_step_hours, bedtime, FALSE, NoForm, FALSE))
                 ELSE UNCHANGED <<outputs, phase>>
    /\ UNCHANGED <<weight, gender, smoking_status, liver_function, metabolism_status,
                   time_step_hours, bedtime, pk_in, pk_out>>

SetStep ==
    /\ phase = "done"
    /\ \E req \in StepRequests :
          LET s == NumberInput(StepMin, StepMax, time_step_hours, req)
          IN  /\ request' = Request("step", NoForm, InRange(StepMin, StepMax, req))
              /\ time_step_hours' = s
              /\ IF s = req
                 THEN Ran(Main(coffee_entries, weight, gender, smoking_status,
                               liver_function, metabolism_status,
                               simulation_time_hours, s, bedtime, FALSE, NoForm, FALSE))
                 ELSE UNCHANGED <<outputs, phase>>
    /\ UNCHANGED <<weight, gender, smoking_status, liver_function, metabolism_status,
                   simulation_time_hours, bedtime, pk_in, pk_out>>

Next == RunScript \/ SubmitAdd \/ ClickRemoveLast \/ SetWeight \/ SetHorizon \/ SetStep

Spec == Init /\ [][Next]_vars

(* ---------------------------------------------------------------------- *)
(* One run, over every profile the sidebar allows                          *)
(* ---------------------------------------------------------------------- *)

\* Every weight of the number_input and every option of the four selectboxes,
\* with one Drip at 00:00 on a grid of one hour in steps of 30 minutes.
InitProfile ==
    \E w \in WeightMin..WeightMax, g \in GenderOptions, sm \in SmokingOptions,
       lv \in LiverOptions, mt \in MetabolismOptions :
        Pending(<<[type |-> "Drip (240 ml)", dose |-> 95, time |-> 0]>>,
                w, g, sm, lv, mt, HorizonMin, 30, BedtimeDefault)

NextProfile == RunScript

SpecProfile == InitProfile /\ [][NextProfile]_vars

(* ---------------------------------------------------------------------- *)
(* One add, over the whole coffee table and every number of servings       *)
(* ---------------------------------------------------------------------- *)

DripAt(tm) == [type |-> "Drip (240 ml)", dose |-> 95, time |-> tm]

\* The schedules an add is tried on.
PriorSchedules == {<<>>, <<DripAt(1350)>>, <<DripAt(1350), DripAt(1320)>>}

InitAdd ==
    \E entries \in PriorSchedules :
        Pending(entries, WeightDefault, "muz", "nekurak", "normalni", "normalni",
                HorizonDefault, StepDefault, BedtimeDefault)

\* The first submit after the page load.
SubmitAny ==
    /\ request.kind = "load"
    /\ SubmitForm(DOMAIN coffee_options, ServingsMin..ServingsMax, DoseTimes)

NextAdd == RunScript \/ SubmitAny

SpecAdd == InitAdd /\ [][NextAdd]_vars

(* ---------------------------------------------------------------------- *)
(* One run, over every grid configuration                                  *)
(* ---------------------------------------------------------------------- *)

InitGrid ==
    \E H \in HorizonMin..HorizonMax, s \in StepMin..StepMax :
        Pending(<<>>, WeightDefault, "muz", "nekurak", "normalni", "normalni",
                H, s, BedtimeDefault)

NextGrid == RunScript

SpecGrid == InitGrid /\ [][NextGrid]_vars

(* ---------------------------------------------------------------------- *)
(* One run, over profiles, schedules, grids and bedtimes                   *)
(* ---------------------------------------------------------------------- *)

MaxDoses == 2

SimWeights == {30, 70, 150}

\* 95 mg (one Drip) and 950 mg (ten), at 00:00, 00:45 and 22:30.
SimEntries ==
    {[type |-> "Drip (240 ml)", dose |-> 95 * n, time |-> tm] :
        n \in {1, 10}, tm \in {0, 45, 1350}}

SimSchedules == UNION {[1..n -> SimEntries] : n \in 0..MaxDoses}

\* <<hours, minutes>>
SimGrids == {<<1, 30>>, <<2, 60>>}

\* 00:45 and 22:00.
SimBedtimes == {45, 1320}

InitSim ==
    \E entries \in SimSchedules, w \in SimWeights, g \in GenderOptions,
       sm \in SmokingOptions, lv \in LiverOptions, mt \in MetabolismOptions,
       grid \in SimGrids, bed \in SimBedtimes :
        Pending(entries, w, g, sm, lv, mt, grid[1], grid[2], bed)

NextSim == RunScript

SpecSim == InitSim /\ [][NextSim]_vars

(* ---------------------------------------------------------------------- *)
(* A direct call of calculate_plasma_concentration                         *)
(* ---------------------------------------------------------------------- *)

PKDoses == {95, 1000}

\* Ka = 1.2 and 0.1 per hour; Ke from 0.015 to 1.2 per hour.
PKKa == {12000, 1000}

PKKe == {150, 1000, 1950, 12000}

\* 15.3 L, 42 L, 90 L.
PKVd == {15300, 42000, 90000}

\* Arrays of minutes since the dose.
PKTimes == {<<0>>, <<0, 60>>, <<1, 150, 1440>>}

InitPK ==
    /\ \E dose \in PKDoses, ka \in PKKa, ke \in PKKe, vd \in PKVd, t \in PKTimes :
          pk_in = [dose |-> dose, F |-> F, Ka |-> ka, Ke |-> ke, Vd |-> vd, t |-> t]
    /\ pk_out = NoResult
    /\ weight = WeightDefault
    /\ gender = "muz"
    /\ smoking_status = "nekurak"
    /\ liver_function = "normalni"
    /\ metabolism_status = "normalni"
    /\ simulation_time_hours = HorizonDefault
    /\ time_step_hours = StepDefault
    /\ bedtime = BedtimeDefault
    /\ coffee_entries = <<>>
    /\ request = Request("load", NoForm, TRUE)
    /\ phase = "pending"
    /\ displayed = <<>>
    /\ remove_button = FALSE
    /\ Vd = 0
    /\ CL = 0
    /\ Ke = 0
    /\ time_points = <<>>
    /\ C = <<>>
    /\ idx_bedtime = 0
    /\ caffeine_at_bedtime = 0
    /\ sleep_warning = FALSE
    /\ error = "none"

CallPK ==
    /\ pk_in /= NoCall
    /\ pk_out = NoResult
    /\ pk_out' = calculate_plasma_concentration(pk_in.dose, pk_in.F, pk_in.Ka,
                                                pk_in.Ke, pk_in.Vd, pk_in.t)
    /\ UNCHANGED <<widgets, outputs, request, phase, pk_in>>

NextPK == CallPK

SpecPK == InitPK /\ [][NextPK]_vars

(* ---------------------------------------------------------------------- *)
(* Claims                                                                  *)
(* ---------------------------------------------------------------------- *)

Last(seq) == seq[Len(seq)]

\* C1 (SpecAdd): for every coffee type of the table, the custom one included,
\* and every number of servings in 1..10, a submitted add raises nothing and
\* appends exactly one entry at the end of the schedule, whose amount is
\* positive and, for a preset, perServing * servings.
C1_AddAppendsDose ==
    [][request'.kind = "add" =>
          /\ error' = "none"
          /\ Len(coffee_entries') = Len(coffee_entries) + 1
          /\ SubSeq(coffee_entries', 1, Len(coffee_entries)) = coffee_entries
          /\ Last(coffee_entries').type = request'.form.choice
          /\ Last(coffee_entries').time = request'.form.time
          /\ Last(coffee_entries').dose > 0
          /\ coffee_options[request'.form.choice] /= None =>
                Last(coffee_entries').dose =
                    coffee_options[request'.form.choice][1] * request'.form.servings
      ]_vars

\* C2 (Spec): the schedule is a stack. A remove_last request removes exactly
\* the last entry and keeps the others in order; on an empty schedule it
\* raises nothing and leaves the schedule empty. An add leaves the entries
\* already there in place and in order, and no other request changes the
\* schedule.
C2_StackDiscipline ==
    [][/\ request'.kind = "remove_last" =>
             /\ error' = "none"
             /\ coffee_entries' =
                    IF coffee_entries = <<>> THEN <<>>
                    ELSE SubSeq(coffee_entries, 1, Len(coffee_entries) - 1)
       /\ request'.kind = "add" =>
             \/ coffee_entries' = coffee_entries
             \/ /\ Len(coffee_entries') = Len(coffee_entries) + 1
                /\ SubSeq(coffee_entries', 1, Len(coffee_entries)) = coffee_entries
       /\ request'.kind \notin {"add", "remove_last"} =>
             coffee_entries' = coffee_entries
      ]_vars

\* C2 witness: a remove_last request was served on a schedule of two
\* different entries, and the first of them is what remains.
C2_Witness ==
    /\ request.kind = "remove_last"
    /\ Len(displayed) = 2
    /\ displayed[1] /= displayed[2]
    /\ coffee_entries = <<displayed[1]>>

\* C2, the empty case: remove_last was asked for on an empty schedule.
C2_EmptyRemoveReached ==
    /\ request.kind = "remove_last"
    /\ coffee_entries = <<>>
    /\ displayed = <<>>
    /\ error = "none"

ValidDoses ==
    {coffee_options[c][1] * n :
        c \in {k \in DOMAIN coffee_options : coffee_options[k] /= None},
        n \in ServingsMin..ServingsMax}

C4_SingularCaseHandled ==
    (pk_out /= NoResult /\ pk_in.Ka = pk_in.Ke) =>
        (pk_out.err = "none" /\ Len(pk_out.C) = Len(pk_in.t))

\* C5 (SpecGrid): for every horizon H in 1..23 and step s in 1..60 the grid
\* is 0, s, 2s, ... minutes, strictly increasing, its last point is at or
\* after H and before H + s, and the curve has one value per grid point.
C5_GridCoversHorizon ==
    (phase = "done" /\ error = "none") =>
        LET n == Len(time_points)
            H == simulation_time_hours
            s == time_step_hours
        IN  /\ n >= 1
            /\ \A i \in 1..n : time_points[i] = (i - 1) * s
            /\ \A i \in 1..(n - 1) : time_points[i] < time_points[i + 1]
            /\ time_points[n] >= 60 * H
            /\ time_points[n] < 60 * H + s
            /\ Len(C) = n

\* The curve of the schedule entries alone, with the parameters and the grid
\* of the last run.
CurveOf(entries) == Simulate(entries, F, Ka, Ke, Vd, time_points).C

\* C6 (SpecSim): superposition. The curve of a schedule of two doses is, at
\* every grid point, the sum of the curves of each dose alone, and it is the
\* curve of the two doses entered in the other order.
C6_Superposition ==
    (phase = "done" /\ error = "none" /\ Len(coffee_entries) = 2) =>
        LET first  == CurveOf(<<coffee_entries[1]>>)
            second == CurveOf(<<coffee_entries[2]>>)
        IN  /\ Len(C) = Len(time_points)
            /\ \A i \in 1..Len(C) : C[i] = first[i] + second[i]
            /\ C = CurveOf(<<coffee_entries[2], coffee_entries[1]>>)

\* C6 witness: two different doses were simulated together, and at some grid
\* point both contribute.
C6_Witness ==
    /\ phase = "done"
    /\ error = "none"
    /\ Len(coffee_entries) = 2
    /\ coffee_entries[1] /= coffee_entries[2]
    /\ \E i \in 1..Len(C) :
          /\ CurveOf(<<coffee_entries[1]>>)[i] > 0
          /\ CurveOf(<<coffee_entries[2]>>)[i] > 0

\* C7 (SpecSim): the concentration is at least 0 at every grid point.
C7_NonNegative ==
    (phase = "done" /\ error = "none") => \A i \in 1..Len(C) : C[i] >= 0

\* C7 witness: a schedule of two doses was simulated and the curve has a
\* positive value and a zero.
C7_Witness ==
    /\ phase = "done"
    /\ error = "none"
    /\ Len(coffee_entries) = 2
    /\ \E i \in 1..Len(C) : C[i] > 0
    /\ \E i \in 1..Len(C) : C[i] = 0

\* The sum, at grid point i, of the model over the entries k..Len that were
\* taken strictly before that grid point.
RECURSIVE SumAdministered(_, _)
SumAdministered(i, k) ==
    IF k > Len(coffee_entries) THEN 0
    ELSE (IF coffee_entries[k].time < time_points[i]
          THEN PlasmaConcentrationAt(coffee_entries[k].dose, F, Ka, Ke, Vd,
                                     time_points[i] - coffee_entries[k].time)
          ELSE 0)
         + SumAdministered(i, k + 1)

\* C8 (SpecSim): a dose contributes exactly 0 at every grid point at or
\* before its timestamp. There the time since the dose is clamped to 0 and
\* the model at 0 is 0, so the curve is at every grid point the sum over the
\* doses taken before it.
C8_ZeroBeforeDose ==
    (phase = "done" /\ error = "none") =>
        /\ \A k \in 1..Len(coffee_entries) :
              PlasmaConcentrationAt(coffee_entries[k].dose, F, Ka, Ke, Vd, 0) = 0
        /\ \A i \in 1..Len(C) :
              /\ \A k \in 1..Len(coffee_entries) :
                    time_points[i] <= coffee_entries[k].time =>
                        TimeSinceDose(time_points[i], coffee_entries[k].time) = 0
              /\ C[i] = SumAdministered(i, 1)

\* C8 witness: a dose taken inside the grid, with a grid point before it where
\* the curve is 0 and a grid point after it where the curve is positive.
C8_Witness ==
    /\ phase = "done"
    /\ error = "none"
    /\ Len(coffee_entries) = 1
    /\ \E i \in 1..Len(C) :
          /\ 0 < time_points[i]
          /\ time_points[i] < coffee_entries[1].time
          /\ C[i] = 0
    /\ \E i \in 1..Len(C) :
          /\ time_points[i] > coffee_entries[1].time
          /\ C[i] > 0

\* The distance of grid index i (from 0) to the bedtime.
BedtimeKey(i) == Abs(time_points[i + 1] - bedtime)

\* C9 (SpecSim): the bedtime query returns the concentration at the grid
\* index closest to the bedtime, the smaller index of two equally close ones,
\* the last index for a bedtime beyond the grid; the warning is shown exactly
\* when that concentration is above 1 mg/L; on an all-zero curve the result is
\* 0 and no warning.
C9_BedtimeQuery ==
    (phase = "done" /\ error = "none") =>
        LET n == Len(time_points)
        IN  /\ idx_bedtime \in 0..(n - 1)
            /\ \A j \in 0..(n - 1) : BedtimeKey(idx_bedtime) <= BedtimeKey(j)
            /\ \A j \in 0..(idx_bedtime - 1) : BedtimeKey(j) > BedtimeKey(idx_bedtime)
            /\ bedtime >= time_points[n] => idx_bedtime = n - 1
            /\ caffeine_at_bedtime = C[idx_bedtime + 1]
            /\ sleep_warning <=> (caffeine_at_bedtime > SleepThreshold)
            /\ (\A i \in 1..n : C[i] = 0) =>
                  (caffeine_at_bedtime = 0 /\ ~sleep_warning)

\* C9 witness: the bedtime is equally close to two grid points with
\* different concentrations, and the warning is shown.
C9_Witness ==
    /\ phase = "done"
    /\ error = "none"
    /\ idx_bedtime + 2 <= Len(time_points)
    /\ BedtimeKey(idx_bedtime) = BedtimeKey(idx_bedtime + 1)
    /\ C[idx_bedtime + 1] /= C[idx_bedtime + 2]
    /\ sleep_warning

\* The scenario of C10: 70 kg, male, non-smoker, normal liver, normal
\* metabolism, one dose of 95 mg at 00:00, simulated on a grid that has the
\* point one hour after it.
C10_Scenario ==
    /\ phase = "done"
    /\ error = "none"
    /\ weight = 70
    /\ gender = "muz"
    /\ smoking_status = "nekurak"
    /\ liver_function = "normalni"
    /\ metabolism_status = "normalni"
    /\ Len(coffee_entries) = 1
    /\ coffee_entries[1].dose = 95
    /\ coffee_entries[1].time = 0
    /\ \E i \in 1..Len(time_points) : time_points[i] = 60

\* The concentration at the grid point one hour after midnight, in 1e-4 mg/L.
AtOneHour == C[CHOOSE i \in 1..Len(time_points) : time_points[i] = 60]

\* C10 as stated (SpecSim): in the scenario Vd = 42 L, CL = 4.2 L/hr,
\* Ke = 0.1 per hour, C = 0 at t = 0 and C = 1.52 mg/L (to two decimals) at
\* t = 1 hr.
C10_OneHourIs152 ==
    C10_Scenario =>
        /\ Vd = 42000
        /\ CL = 42000000
        /\ Ke = 1000
        /\ C[1] = 0
        /\ 15150 <= AtOneHour /\ AtOneHour < 15250

\* C10 as amended (SpecSim): the same, with C = 1.49 mg/L (to two decimals)
\* at t = 1 hr.
C10_OneHourIs149 ==
    C10_Scenario =>
        /\ Vd = 42000
        /\ CL = 42000000
        /\ Ke = 1000
        /\ C[1] = 0
        /\ 14850 <= AtOneHour /\ AtOneHour < 14950

\* C10 witness: the scenario was simulated.
C10_Witness == C10_Scenario /\ AtOneHour > 0

(* ---------------------------------------------------------------------- *)
(* C11: the entries shown are the entries simulated                        *)
(* ---------------------------------------------------------------------- *)

\* C11: in every run that ends without an exception, after any sequence of
\* add and remove-last requests, the list of entries the run wrote under
\* "Zadane davky kavy" is exactly the schedule the run's dose loop summed over
\* (st.session_state.coffee_entries when the loop ran), and the curve is the
\* curve of the entries shown; in particular the run that handles remove-last
\* does not show the removed entry.
C11_DisplayedIsSimulated ==
    (phase = "done" /\ error = "none") =>
        /\ displayed = coffee_entries
        /\ C = CurveOf(displayed)

\* The part of C11 the script keeps: every step in which the script runs
\* for a page load, an add or an accepted sidebar edit, and ends without an
\* exception, shows the schedule it simulates.
C11_AgreeOutsideRemove ==
    [][(/\ phase' = "done"
        /\ error' = "none"
        /\ request'.kind /= "remove_last"
        /\ (request'.kind = "add" \/ request'.valid))
       => /\ displayed' = coffee_entries'
          /\ C' = Simulate(displayed', F, Ka, Ke', Vd', time_points').C]_vars

\* The run that handles remove-last and wrote a list wrote the entry it then
\* removed: the list is written before pop() and the script is not rerun, so
\* the list shown is one entry longer than the schedule simulated.
C11_RemoveShowsRemoved ==
    (phase = "done" /\ error = "none" /\ request.kind = "remove_last"
        /\ displayed /= <<>>) =>
        /\ coffee_entries = Pop(displayed)
        /\ Len(displayed) = Len(coffee_entries) + 1
        /\ C = CurveOf(coffee_entries)

(* ---------------------------------------------------------------------- *)
(* C12: the elimination rate of every profile                              *)
(* ---------------------------------------------------------------------- *)

C12_SlowestReached ==
    /\ phase = "done"
    /\ weight = WeightMin
    /\ gender = "zena"
    /\ Ke = 150
    /\ C[2] > 0

====
